---- MODULE Spec2Model ----
(***************************************************************************)
(* Live-sync planning and execution of skaffold (pkg/skaffold/sync).       *)
(*                                                                         *)
(* Strings the code inspects character by character (paths, glob patterns, *)
(* strip prefixes) are sequences of one-character strings; image names,    *)
(* tags and namespaces, which the code only compares, are TLA+ strings.    *)
(* A Go pointer or map that may be nil is a sequence of length 0 (nil) or  *)
(* 1 (the value); an error is the sequence of its wrapping messages,       *)
(* outermost first, and <<>> is the nil error.                             *)
(* Paths follow the unix build: filepath.Separator is "/".                 *)
(***************************************************************************)
EXTENDS Integers, Sequences, FiniteSets, TLC

----------------------------------------------------------------------------
(* Bounds of the model.                                                    *)

MaxRules == 2
MaxFiles == 2
MaxBuilds == 3
MaxCmds == 3
MaxPrevious == 2
MaxBuilderConfigs == 3
MaxImages == 3
MaxReads == 3

----------------------------------------------------------------------------
(* Generic helpers.                                                        *)

NilErr == <<>>

Nil == <<>>

Some(x) == <<x>>

IsNil(o) == o = <<>>

SeqsUpTo(S, n) == UNION {[1..k -> S] : k \in 0..n}

Range(s) == {s[i] : i \in 1..Len(s)}

IsPrefix(s, t) == Len(s) <= Len(t) /\ SubSeq(t, 1, Len(s)) = s

Last(s) == s[Len(s)]

Separator == "/"

HasPrefix(s, prefix) ==
    /\ Len(prefix) <= Len(s)
    /\ SubSeq(s, 1, Len(prefix)) = prefix

\* TrimPrefix cutting as many characters as the prefix has, whether or not
\* s starts with it.
TrimPrefixBlind(s, prefix) ==
    IF Len(prefix) <= Len(s) THEN SubSeq(s, Len(prefix) + 1, Len(s)) ELSE <<>>

TrimPrefix(s, prefix) ==
    IF HasPrefix(s, prefix) THEN SubSeq(s, Len(prefix) + 1, Len(s)) ELSE s

\* The path split at every sep, empty elements kept.
RECURSIVE Split(_, _)
Split(s, sep) ==
    IF \A i \in 1..Len(s) : s[i] # sep
    THEN <<s>>
    ELSE LET i == CHOOSE j \in 1..Len(s) :
                      s[j] = sep /\ \A k \in 1..(j - 1) : s[k] # sep
         IN <<SubSeq(s, 1, i - 1)>> \o Split(SubSeq(s, i + 1, Len(s)), sep)

RECURSIVE JoinWith(_, _)
JoinWith(elems, sep) ==
    IF elems = <<>> THEN <<>>
    ELSE IF Len(elems) = 1 THEN elems[1]
    ELSE elems[1] \o <<sep>> \o JoinWith(Tail(elems), sep)

FromSlash(s) == [i \in 1..Len(s) |-> IF s[i] = "/" THEN Separator ELSE s[i]]

ToSlash(s) == [i \in 1..Len(s) |-> IF s[i] = Separator THEN "/" ELSE s[i]]

IsAbs(p) == Len(p) > 0 /\ p[1] = "/"

DotDot == <<".", ".">>

\* The elements Clean keeps: "" and "." dropped, ".." cancelling the element
\* before it (dropped at the root, kept at the front of a relative path).
RECURSIVE CleanElems(_, _, _)
CleanElems(elems, out, rooted) ==
    IF elems = <<>> THEN out
    ELSE LET x == Head(elems) IN
         IF x = <<>> \/ x = <<".">>
         THEN CleanElems(Tail(elems), out, rooted)
         ELSE IF x = DotDot
         THEN IF out # <<>> /\ out[Len(out)] # DotDot
              THEN CleanElems(Tail(elems), SubSeq(out, 1, Len(out) - 1), rooted)
              ELSE IF rooted
              THEN CleanElems(Tail(elems), out, rooted)
              ELSE CleanElems(Tail(elems), Append(out, x), rooted)
         ELSE CleanElems(Tail(elems), Append(out, x), rooted)

\* The end of Clean: the kept elements joined, behind "/" for a rooted path,
\* and "." for a relative path with nothing kept.
CleanJoined(rooted, body) ==
    IF rooted THEN <<"/">> \o body
    ELSE IF body = <<>> THEN <<".">> ELSE body

Clean(p) ==
    IF p = <<>> THEN <<".">>
    ELSE CleanJoined(IsAbs(p), JoinWith(CleanElems(Split(p, "/"), <<>>, IsAbs(p)), "/"))

RECURSIVE NonEmpty(_)
NonEmpty(elems) ==
    IF elems = <<>> THEN <<>>
    ELSE IF Head(elems) = <<>> THEN NonEmpty(Tail(elems))
    ELSE <<Head(elems)>> \o NonEmpty(Tail(elems))

JoinNonEmpty(elems) ==
    IF elems = <<>> THEN <<>> ELSE Clean(JoinWith(elems, "/"))

\* path.Join: the non-empty elements joined by "/" and cleaned; "" if none.
Join(elems) == JoinNonEmpty(NonEmpty(elems))

RECURSIVE CommonPrefixLen(_, _)
CommonPrefixLen(x, y) ==
    IF x = <<>> \/ y = <<>> \/ Head(x) # Head(y) THEN 0
    ELSE 1 + CommonPrefixLen(Tail(x), Tail(y))

RelErr == <<"Rel: can't make path relative to base">>

\* The end of Rel: be and te are the elements of base and target, k of them
\* in common.
RelFrom(be, te, k) ==
    IF k < Len(be) /\ be[k + 1] = DotDot THEN [path |-> <<>>, err |-> RelErr]
    ELSE [path |-> JoinWith([i \in 1..(Len(be) - k) |-> DotDot]
                            \o SubSeq(te, k + 1, Len(te)), Separator),
          err |-> NilErr]

RelElems(be, te) == RelFrom(be, te, CommonPrefixLen(be, te))

RelBase(base, targ) ==
    IF IsAbs(base) # IsAbs(targ) THEN [path |-> <<>>, err |-> RelErr]
    ELSE RelElems(NonEmpty(Split(base, Separator)), NonEmpty(Split(targ, Separator)))

RelCleaned(base, targ) ==
    IF targ = base THEN [path |-> <<".">>, err |-> NilErr]
    ELSE RelBase(IF base = <<".">> THEN <<>> ELSE base, targ)

\* filepath.Rel: targpath relative to basepath, or an error when one of them
\* is rooted and the other is not, or when base keeps a ".." to climb from.
Rel(basepath, targpath) == RelCleaned(Clean(basepath), Clean(targpath))

----------------------------------------------------------------------------
(* doublestar.PathMatch, as sync.go uses it: the pattern and the name are  *)
(* split at the separator, "**" stands for any number of name components,  *)
(* and inside a component "*" stands for any run of characters, "?" for    *)
(* one character and "[...]" for one character of a class.  A class that   *)
(* is not closed is a bad pattern, reported only when matching reaches it. *)
(* Escapes, ranges and {a,b} alternatives are outside the patterns of this *)
(* model.                                                                  *)

MATCH == "match"

NOMATCH == "nomatch"

BADPATTERN == "bad pattern"

ErrBadPattern == <<"syntax error in pattern">>

IndexOf(s, c) ==
    IF \E i \in 1..Len(s) : s[i] = c
    THEN CHOOSE i \in 1..Len(s) : s[i] = c /\ \A k \in 1..(i - 1) : s[k] # c
    ELSE 0

RECURSIVE matchComponent(_, _)
RECURSIVE matchRunes(_, _)
\* The rune loop of matchComponent on what is left of pattern and name.
matchRunes(p, n) ==
    IF p # <<>> /\ n # <<>>
    THEN IF Head(p) = "*"
         THEN IF Tail(p) = <<>> THEN MATCH
              ELSE IF \E k \in 1..Len(n) :
                         matchComponent(Tail(p), SubSeq(n, k, Len(n))) = MATCH
                   THEN MATCH ELSE NOMATCH
         ELSE IF Head(p) = "["
         THEN LET endClass == IndexOf(Tail(p), "]") IN
              IF endClass = 0 THEN BADPATTERN
              ELSE IF Head(n) \in Range(SubSeq(Tail(p), 1, endClass - 1))
                   THEN matchRunes(SubSeq(p, endClass + 2, Len(p)), Tail(n))
                   ELSE NOMATCH
         ELSE IF Head(p) = "?" \/ Head(p) = Head(n)
         THEN matchRunes(Tail(p), Tail(n))
         ELSE NOMATCH
    ELSE IF p = <<>> /\ n = <<>> THEN MATCH
    ELSE IF (n = <<>> /\ p = <<"*">>) \/ p = <<"*", "*">> THEN MATCH
    ELSE NOMATCH

matchComponent(pattern, name) ==
    IF pattern = <<>> /\ name = <<>> THEN MATCH
    ELSE IF pattern = <<>> THEN NOMATCH
    ELSE IF name = <<>> /\ pattern # <<"*">> THEN NOMATCH
    ELSE matchRunes(pattern, name)

\* The components of a path; a trailing separator adds no component.
splitPathOnSeparator(p, sep) ==
    LET c == Split(p, sep) IN
    IF Len(c) > 1 /\ c[Len(c)] = <<>> THEN SubSeq(c, 1, Len(c) - 1) ELSE c

RECURSIVE doMatching(_, _)
RECURSIVE matchComponents(_, _)
\* The component loop of doMatching on what is left of pattern and name.
matchComponents(patC, nameC) ==
    IF patC # <<>> /\ nameC # <<>>
    THEN IF Head(patC) = <<"*", "*">>
         THEN IF Tail(patC) = <<>> THEN MATCH
              ELSE IF \E k \in 1..Len(nameC) :
                         doMatching(Tail(patC), SubSeq(nameC, k, Len(nameC))) = MATCH
                   THEN MATCH ELSE NOMATCH
         ELSE IF matchComponent(Head(patC), Head(nameC)) = MATCH
              THEN matchComponents(Tail(patC), Tail(nameC))
              ELSE matchComponent(Head(patC), Head(nameC))
    ELSE IF patC = <<>> /\ nameC = <<>> THEN MATCH ELSE NOMATCH

doMatching(patternComponents, nameComponents) ==
    IF patternComponents = <<>> /\ nameComponents = <<>> THEN MATCH
    ELSE IF patternComponents = <<>> \/ nameComponents = <<>> THEN NOMATCH
    ELSE matchComponents(patternComponents, nameComponents)

PathMatch(pattern, name) ==
    doMatching(splitPathOnSeparator(pattern, Separator),
               splitPathOnSeparator(name, Separator))

----------------------------------------------------------------------------
(* pkg/skaffold/sync: plan building.                                       *)

\* Destination putting the working directory in front of every Dest, where
\* the code puts it only in front of a relative one.
DestinationUnderWd(r, relPath, containerWd) ==
    Join(<<containerWd, r.Dest, TrimPrefix(ToSlash(relPath), r.Strip)>>)

\* One destination of relPath under rule r.
Destination(r, relPath, containerWd) ==
    LET wd == IF ~IsAbs(r.Dest) THEN containerWd ELSE <<>>
        subPath == TrimPrefix(ToSlash(relPath), r.Strip)
    IN Join(<<wd, r.Dest, subPath>>)

\* appendDst leaving out a destination dsts already has.
appendDstOnce(dsts, dst) == IF dst \in Range(dsts) THEN dsts ELSE Append(dsts, dst)

\* Line 147: the destination of a matching rule is appended.
appendDst(dsts, dst) == Append(dsts, dst)

RECURSIVE matchRulesFrom(_, _, _, _)

\* One turn of the loop of matchSyncRules, matches being what PathMatch gave
\* for the first of the rules left.
matchRule(syncRules, relPath, containerWd, dsts, matches) ==
    IF matches = BADPATTERN
    THEN [dsts |-> Nil, err |-> <<"pattern error">> \o ErrBadPattern]
    ELSE IF matches # MATCH
    THEN matchRulesFrom(Tail(syncRules), relPath, containerWd, dsts)
    ELSE matchRulesFrom(Tail(syncRules), relPath, containerWd,
                        appendDst(dsts, Destination(Head(syncRules), relPath, containerWd)))

\* The loop of matchSyncRules over the rules left, dsts collected so far.
matchRulesFrom(syncRules, relPath, containerWd, dsts) ==
    IF syncRules = <<>> THEN [dsts |-> Some(dsts), err |-> NilErr]
    ELSE matchRule(syncRules, relPath, containerWd, dsts,
                   PathMatch(FromSlash(Head(syncRules).Src), relPath))

matchSyncRules(syncRules, relPath, containerWd) ==
    matchRulesFrom(syncRules, relPath, containerWd, <<>>)

RECURSIVE intersectFrom(_, _, _, _, _)

\* intersectMatched leaving out a file no rule matches, where the code gives
\* up on the whole batch.
intersectMatchedSkipping(contextWd, containerWd, syncRules, files, ret, res) ==
    IF res.err # NilErr
    THEN [m |-> Nil, err |-> res.err]
    ELSE IF Len(res.dsts[1]) = 0
    THEN intersectFrom(contextWd, containerWd, syncRules, Tail(files), ret)
    ELSE intersectFrom(contextWd, containerWd, syncRules, Tail(files),
                       [x \in (DOMAIN ret) \cup {Head(files)} |->
                           IF x = Head(files) THEN res.dsts[1] ELSE ret[x]])

\* Lines 113-122: res is what matchSyncRules gave for the first file left.
intersectMatched(contextWd, containerWd, syncRules, files, ret, res) ==
    IF res.err # NilErr
    THEN [m |-> Nil, err |-> res.err]
    ELSE IF Len(res.dsts[1]) = 0
    THEN [m |-> Nil, err |-> NilErr]
    ELSE intersectFrom(contextWd, containerWd, syncRules, Tail(files),
                       [x \in (DOMAIN ret) \cup {Head(files)} |->
                           IF x = Head(files) THEN res.dsts[1] ELSE ret[x]])

\* intersectRel going on to the next file when filepath.Rel fails, where the
\* code returns the error.
intersectRelSkipping(contextWd, containerWd, syncRules, files, ret, rel) ==
    IF rel.err # NilErr
    THEN intersectFrom(contextWd, containerWd, syncRules, Tail(files), ret)
    ELSE intersectMatched(contextWd, containerWd, syncRules, files, ret,
                          matchSyncRules(syncRules, rel.path, containerWd))

\* Lines 107-112: rel is what filepath.Rel gave for the first file left.
intersectRel(contextWd, containerWd, syncRules, files, ret, rel) ==
    IF rel.err # NilErr
    THEN [m |-> Nil, err |-> <<"changed file can't be found relative to context">> \o rel.err]
    ELSE intersectMatched(contextWd, containerWd, syncRules, files, ret,
                          matchSyncRules(syncRules, rel.path, containerWd))

\* The loop of intersect over the files left, ret the map built so far.
intersectFrom(contextWd, containerWd, syncRules, files, ret) ==
    IF files = <<>> THEN [m |-> Some(ret), err |-> NilErr]
    ELSE intersectRel(contextWd, containerWd, syncRules, files, ret,
                      Rel(contextWd, Head(files)))

EmptyMap == [x \in {} |-> <<>>]

intersect(contextWd, containerWd, syncRules, files) ==
    intersectFrom(contextWd, containerWd, syncRules, files, EmptyMap)

RECURSIVE latestTagLast(_, _)
\* latestTag taking the last build of the image, where the code takes the first.
latestTagLast(image, bs) ==
    IF bs = <<>> THEN ""
    ELSE IF bs[Len(bs)].ImageName = image THEN bs[Len(bs)].Tag
    ELSE latestTagLast(image, SubSeq(bs, 1, Len(bs) - 1))

RECURSIVE latestTagOrImage(_, _)
\* latestTag falling back to the image name, where the code returns "".
latestTagOrImage(image, bs) ==
    IF bs = <<>> THEN image
    ELSE IF Head(bs).ImageName = image
         THEN (IF Head(bs).Tag = "" THEN image ELSE Head(bs).Tag)
    ELSE latestTagOrImage(image, Tail(bs))

RECURSIVE latestTag(_, _)
latestTag(image, bs) ==
    IF bs = <<>> THEN ""
    ELSE IF Head(bs).ImageName = image THEN Head(bs).Tag
    ELSE latestTag(image, Tail(bs))

----------------------------------------------------------------------------
(* pkg/skaffold/build: merging the builds of a run with earlier ones.      *)

\* MergeWithPreviousBuilds appending every previous build, where the code
\* leaves out those whose image was built again.
MergeAppendingAll(bs, prev) == bs \o prev

RECURSIVE mergeFrom(_, _, _)
\* Lines 31-35: the loop over the previous builds left, acc merged so far.
mergeFrom(updatedBuilds, prev, acc) ==
    IF prev = <<>> THEN acc
    ELSE IF Head(prev).ImageName \notin updatedBuilds
    THEN mergeFrom(updatedBuilds, Tail(prev), Append(acc, Head(prev)))
    ELSE mergeFrom(updatedBuilds, Tail(prev), acc)

MergeWithPreviousBuilds(bs, prev) ==
    mergeFrom({bs[i].ImageName : i \in 1..Len(bs)}, prev, bs)

----------------------------------------------------------------------------
(* pkg/skaffold/sync: the guard and the steps of NewItem.                  *)

HasChanged(ev) == Len(ev.Added) # 0 \/ Len(ev.Deleted) # 0 \/ Len(ev.Modified) # 0

\* NoOp without the test for an empty rule list.
NoOpUnlessNil(art, ev) == ~HasChanged(ev) \/ IsNil(art.Sync)

\* The guard of NewItem: nothing changed, or no sync rules.
NoOp(art, ev) == ~HasChanged(ev) \/ IsNil(art.Sync) \/ Len(art.Sync[1].Manual) = 0

\* CopyFiles without the modified files.
CopyFilesAdded(ev) == ev.Added

\* The files NewItem intersects for the copy map.
CopyFiles(ev) == ev.Added \o ev.Modified

Call(fn, tag, fs) == [fn |-> fn, tag |-> tag, files |-> fs]

\* The first n calls of a run of NewItem that makes them all.
Calls(n, art, ev, tag) ==
    SubSeq(<<Call("latestTag", art.ImageName, <<>>), Call("WorkingDir", tag, <<>>),
             Call("intersect", tag, CopyFiles(ev)), Call("intersect", tag, ev.Deleted)>>,
           1, n)

\* Lines 79-92: toCopy and toDelete are what the two intersections gave.
NewItemIntersected(art, ev, tag, toCopy, toDelete) ==
    IF toDelete.err # NilErr
    THEN [item |-> Nil,
          err |-> <<"intersecting sync map and deleted files">> \o toDelete.err,
          calls |-> Calls(4, art, ev, tag)]
    ELSE IF IsNil(toCopy.m) \/ IsNil(toDelete.m)
    THEN [item |-> Nil, err |-> NilErr, calls |-> Calls(4, art, ev, tag)]
    ELSE [item |-> Some([Image |-> tag, Copy |-> toCopy.m[1], Delete |-> toDelete.m[1]]),
          err |-> NilErr, calls |-> Calls(4, art, ev, tag)]

\* NewItemCopied returning (nil, nil) as soon as the first intersection gave
\* no map, where the code runs the second one first.
NewItemCopiedStoppingOnAbort(art, ev, wd, tag, toCopy) ==
    IF toCopy.err # NilErr
    THEN [item |-> Nil,
          err |-> <<"intersecting sync map and added, modified files">> \o toCopy.err,
          calls |-> Calls(3, art, ev, tag)]
    ELSE IF IsNil(toCopy.m)
    THEN [item |-> Nil, err |-> NilErr, calls |-> Calls(3, art, ev, tag)]
    ELSE NewItemIntersected(art, ev, tag, toCopy,
                            intersect(art.Workspace, wd.dir, art.Sync[1].Manual, ev.Deleted))

\* Lines 74-78: toCopy is what the intersection of the added and modified
\* files gave.
NewItemCopied(art, ev, wd, tag, toCopy) ==
    IF toCopy.err # NilErr
    THEN [item |-> Nil,
          err |-> <<"intersecting sync map and added, modified files">> \o toCopy.err,
          calls |-> Calls(3, art, ev, tag)]
    ELSE NewItemIntersected(art, ev, tag, toCopy,
                            intersect(art.Workspace, wd.dir, art.Sync[1].Manual, ev.Deleted))

\* NewItemTagged going on to the intersections when WorkingDir fails, where
\* the code returns the error.
NewItemTaggedIgnoringWd(art, ev, wd, tag) ==
    IF tag = ""
    THEN [item |-> Nil, err |-> <<"could not find latest tag for image">>,
          calls |-> Calls(1, art, ev, tag)]
    ELSE NewItemCopied(art, ev, wd, tag,
                       intersect(art.Workspace, wd.dir, art.Sync[1].Manual, CopyFiles(ev)))

\* Lines 64-73: tag is what latestTag gave, wd what WorkingDir answers.
NewItemTagged(art, ev, wd, tag) ==
    IF tag = ""
    THEN [item |-> Nil, err |-> <<"could not find latest tag for image">>,
          calls |-> Calls(1, art, ev, tag)]
    ELSE IF wd.err # NilErr
    THEN [item |-> Nil, err |-> <<"retrieving working dir">> \o wd.err,
          calls |-> Calls(2, art, ev, tag)]
    ELSE NewItemCopied(art, ev, wd, tag,
                       intersect(art.Workspace, wd.dir, art.Sync[1].Manual, CopyFiles(ev)))

\* NewItem on artifact art, events ev, builds bs and wd, the answer WorkingDir
\* gives: the returned item and error, and the calls made, in order.
NewItemResult(art, ev, bs, wd) ==
    IF NoOp(art, ev)
    THEN [item |-> Nil, err |-> NilErr, calls |-> <<>>]
    ELSE NewItemTagged(art, ev, wd, latestTag(art.ImageName, bs))

----------------------------------------------------------------------------
(* The values the inputs are drawn from.                                   *)

PatSrcJs ==
    <<"s", "r", "c", "/", "*", "*", "/", "*", ".", "j", "s">>
PatAnyDot ==
    <<"*", "*", "/", "*", ".", "*">>
PatBad ==
    <<"x", "/", "[">>
DestApp ==
    <<"/", "a", "p", "p">>
DestDist ==
    <<"d", "i", "s", "t">>
StripSrc ==
    <<"s", "r", "c", "/">>
WsWorkspace ==
    <<"w", "o", "r", "k", "s", "p", "a", "c", "e">>
WdHomeApp ==
    <<"/", "h", "o", "m", "e", "/", "a", "p", "p">>
WdSrv ==
    <<"/", "s", "r", "v">>
RelBJs ==
    <<"s", "r", "c", "/", "a", "/", "b", ".", "j", "s">>
RelYTxt ==
    <<"x", "/", "y", ".", "t", "x", "t">>
RelReadme ==
    <<"R", "E", "A", "D", "M", "E">>
RelCJs ==
    <<"c", ".", "j", "s">>
FileBJs ==
    WsWorkspace \o <<"/">> \o RelBJs
FileYTxt ==
    WsWorkspace \o <<"/">> \o RelYTxt
FileReadme ==
    WsWorkspace \o <<"/">> \o RelReadme
FileEtc ==
    <<"/", "e", "t", "c", "/", "x">>

RuleSrcJs == [Src |-> PatSrcJs, Dest |-> DestApp, Strip |-> StripSrc]

RuleAnyDot == [Src |-> PatAnyDot, Dest |-> DestDist, Strip |-> <<>>]

RuleBad == [Src |-> PatBad, Dest |-> DestApp, Strip |-> <<>>]

RuleAnyStrip == [Src |-> PatAnyDot, Dest |-> DestDist, Strip |-> StripSrc]

RuleUniverse == {RuleSrcJs, RuleAnyDot, RuleBad, RuleAnyStrip}

FileUniverse == {FileBJs, FileYTxt, FileReadme, FileEtc}

RelPathUniverse == {RelBJs, RelYTxt, RelReadme, RelCJs}

WdUniverse == {WdHomeApp, WdSrv}

ImageUniverse == {"img", "other"}

BuildUniverse ==
    {[ImageName |-> "img", Tag |-> "img:1"], [ImageName |-> "img", Tag |-> "img:2"],
     [ImageName |-> "img", Tag |-> ""], [ImageName |-> "other", Tag |-> "other:1"]}

\* The build lists plan building is run on.
PlanBuildLists ==
    {<<>>,
     <<[ImageName |-> "other", Tag |-> "other:1"]>>,
     <<[ImageName |-> "img", Tag |-> "img:1"]>>,
     <<[ImageName |-> "other", Tag |-> "other:1"], [ImageName |-> "img", Tag |-> "img:2"],
       [ImageName |-> "img", Tag |-> "img:1"]>>,
     <<[ImageName |-> "img", Tag |-> ""], [ImageName |-> "img", Tag |-> "img:1"]>>}

\* What the working-directory resolver answers.
WdAnswers ==
    {[dir |-> WdHomeApp, err |-> NilErr], [dir |-> <<>>, err |-> <<"inspecting image">>]}

\* The rule lists plan building is run on.
PlanRuleLists ==
    {<<>>, <<RuleSrcJs>>, <<RuleAnyDot>>, <<RuleBad>>, <<RuleSrcJs, RuleAnyDot>>,
     <<RuleAnyDot, RuleBad>>, <<RuleBad, RuleSrcJs>>, <<RuleSrcJs, RuleSrcJs>>}

SyncSections ==
    {Nil} \cup {Some([Manual |-> rs]) : rs \in PlanRuleLists}

Artifacts ==
    {[ImageName |-> "img", Workspace |-> WsWorkspace, Sync |-> s] : s \in SyncSections}

\* The change batches of at most MaxFiles paths in all.
Batches ==
    {[Added |-> SubSeq(s, 1, i), Modified |-> SubSeq(s, i + 1, j),
      Deleted |-> SubSeq(s, j + 1, Len(s))] :
        <<s, i, j>> \in {t \in SeqsUpTo(FileUniverse, MaxFiles) \X (0..MaxFiles) \X (0..MaxFiles) :
                            t[2] <= t[3] /\ t[3] <= Len(t[1])}}

----------------------------------------------------------------------------
(* State.                                                                  *)

VARIABLES
    pc,          \* where the operation under check stands
    a,           \* NewItem: the artifact
    e,           \* NewItem: the change batch
    builds,      \* NewItem, latestTag: the builds
    wdEnv,       \* NewItem: what WorkingDir answers
    ret,         \* NewItem: the returned item and error
    calls,       \* NewItem: the calls made, in order
    syncRules,   \* matchSyncRules: the rules
    relPath,     \* matchSyncRules: the path relative to the workspace
    containerWd, \* matchSyncRules: the working directory of the container
    matchRet,    \* matchSyncRules: the returned destinations and error
    queryImage,  \* latestTag: the image asked for
    tagRet,      \* latestTag: the returned tag
    previous,    \* MergeWithPreviousBuilds: the builds of earlier runs
    merged,      \* MergeWithPreviousBuilds: the returned list
    image,       \* Perform: the target image
    files,       \* Perform: the sync map
    namespaces,  \* Perform: the namespaces to visit
    nsIdx,       \* Perform: the namespace the outer loop stands at
    pods,        \* Perform: the pods listed for that namespace
    podIdx,      \* Perform: the pod the loop stands at
    cIdx,        \* Perform: the container the loop stands at
    cmds,        \* Perform: the commands generated for that container
    cmdIdx,      \* Perform: the command the loop stands at
    numSynced,   \* Perform: the commands run successfully
    perr,        \* Perform: the returned error
    clientCalls, \* Perform: the requests for a cluster client, each with its outcome
    listCalls,   \* Perform: the namespaces listed, in order, each with its outcome
    genCalls,    \* Perform: the containers the generator was invoked on, in order
    ran,         \* Perform: the commands run, in order, each with its outcome
    inputBuilders,    \* autoSelectBuilders: the builders it was called with
    builderConfigs,   \* autoSelectBuilders: the builders left
    images,           \* autoSelectBuilders: the images to find builders for
    imgIdx,           \* autoSelectBuilders: the image the loop stands at
    pairs,            \* autoSelectBuilders: the pairs of a builder and its image
    unresolvedImages, \* autoSelectBuilders: the images left without a builder
    selectLog,        \* autoSelectBuilders: each image visited, with its outcome
    configFile,       \* DoInit: c.Opts.ConfigurationFile
    force,            \* DoInit: c.Force
    out,              \* DoInit: what was written to the output stream, in order
    reads,            \* DoInit: what was read from the input, in order
    fileWrites,       \* DoInit: the calls of WriteFile, each with its outcome
    initErr           \* DoInit: the returned error

planVars == <<a, e, builds, wdEnv, ret, calls>>

matchVars == <<syncRules, relPath, containerWd, matchRet>>

tagVars == <<queryImage, tagRet, previous, merged>>

performVars ==
    <<image, files, namespaces, nsIdx, pods, podIdx, cIdx, cmds, cmdIdx, numSynced,
      perr, clientCalls, listCalls, genCalls, ran>>

selectVars ==
    <<inputBuilders, builderConfigs, images, imgIdx, pairs, unresolvedImages, selectLog>>

doInitVars == <<configFile, force, out, reads, fileWrites, initErr>>

initializerVars == <<selectVars, doInitVars>>

vars == <<pc, planVars, matchVars, tagVars, performVars, initializerVars>>

NoRet == [item |-> Nil, err |-> NilErr]

PlanIdle ==
    /\ a = [ImageName |-> "", Workspace |-> <<>>, Sync |-> Nil]
    /\ e = [Added |-> <<>>, Modified |-> <<>>, Deleted |-> <<>>]
    /\ wdEnv = [dir |-> <<>>, err |-> NilErr]
    /\ ret = NoRet
    /\ calls = <<>>

MatchIdle ==
    /\ syncRules = <<>>
    /\ relPath = <<>>
    /\ containerWd = <<>>
    /\ matchRet = [dsts |-> Nil, err |-> NilErr]

MergeIdle ==
    /\ previous = <<>>
    /\ merged = <<>>

TagIdle ==
    /\ queryImage = ""
    /\ tagRet = ""
    /\ MergeIdle

NoError == [msgs |-> <<>>, cmd |-> Nil]

PerformLocals ==
    /\ nsIdx = 0
    /\ pods = <<>>
    /\ podIdx = 0
    /\ cIdx = 0
    /\ cmds = <<>>
    /\ cmdIdx = 0
    /\ numSynced = 0
    /\ perr = NoError
    /\ clientCalls = <<>>
    /\ listCalls = <<>>
    /\ genCalls = <<>>
    /\ ran = <<>>

PerformIdle ==
    /\ image = ""
    /\ files = EmptyMap
    /\ namespaces = <<>>
    /\ PerformLocals

SelectIdle ==
    /\ inputBuilders = <<>>
    /\ builderConfigs = <<>>
    /\ images = <<>>
    /\ imgIdx = 0
    /\ pairs = <<>>
    /\ unresolvedImages = <<>>
    /\ selectLog = <<>>

DoInitIdle ==
    /\ configFile = ""
    /\ force = FALSE
    /\ out = <<>>
    /\ reads = <<>>
    /\ fileWrites = <<>>
    /\ initErr = NilErr

InitializerIdle == SelectIdle /\ DoInitIdle

----------------------------------------------------------------------------
(* Plan building: NewItem run once on an artifact, a change batch, a build *)
(* list and an answer of the working-directory resolver.                   *)

Init ==
    /\ pc = "start"
    /\ a \in Artifacts
    /\ e \in Batches
    /\ builds \in PlanBuildLists
    /\ wdEnv \in WdAnswers
    /\ ret = NoRet
    /\ calls = <<>>
    /\ MatchIdle
    /\ TagIdle
    /\ PerformIdle
    /\ InitializerIdle

NewItem ==
    /\ pc = "start"
    /\ \E r \in {NewItemResult(a, e, builds, wdEnv)} :
           /\ ret' = [item |-> r.item, err |-> r.err]
           /\ calls' = r.calls
    /\ pc' = "done"
    /\ UNCHANGED <<a, e, builds, wdEnv, matchVars, tagVars, performVars, initializerVars>>

Next == NewItem

Spec == Init /\ [][Next]_vars

----------------------------------------------------------------------------
(* matchSyncRules run once on a rule list, a relative path and a working   *)
(* directory.                                                              *)

InitMatch ==
    /\ pc = "start"
    /\ syncRules \in SeqsUpTo(RuleUniverse, MaxRules)
    /\ relPath \in RelPathUniverse
    /\ containerWd \in WdUniverse
    /\ matchRet = [dsts |-> Nil, err |-> NilErr]
    /\ PlanIdle
    /\ builds = <<>>
    /\ TagIdle
    /\ PerformIdle
    /\ InitializerIdle

MatchSyncRules ==
    /\ pc = "start"
    /\ matchRet' = matchSyncRules(syncRules, relPath, containerWd)
    /\ pc' = "done"
    /\ UNCHANGED <<syncRules, relPath, containerWd, planVars, tagVars, performVars, initializerVars>>

NextMatch == MatchSyncRules

SpecMatch == InitMatch /\ [][NextMatch]_vars

----------------------------------------------------------------------------
(* latestTag run once on an image name and a build list.                   *)

InitTag ==
    /\ pc = "start"
    /\ queryImage \in ImageUniverse
    /\ builds \in SeqsUpTo(BuildUniverse, MaxBuilds)
    /\ tagRet = ""
    /\ MergeIdle
    /\ PlanIdle
    /\ MatchIdle
    /\ PerformIdle
    /\ InitializerIdle

LatestTag ==
    /\ pc = "start"
    /\ tagRet' = latestTag(queryImage, builds)
    /\ pc' = "done"
    /\ UNCHANGED <<queryImage, previous, merged, planVars, matchVars, performVars, initializerVars>>

NextTag == LatestTag

SpecTag == InitTag /\ [][NextTag]_vars

----------------------------------------------------------------------------
(* MergeWithPreviousBuilds run once on the builds of a run and those of    *)
(* earlier runs, and latestTag run on what it returned.                    *)

InitMerge ==
    /\ pc = "start"
    /\ queryImage \in ImageUniverse
    /\ builds \in SeqsUpTo(BuildUniverse, MaxBuilds)
    /\ previous \in SeqsUpTo(BuildUniverse, MaxPrevious)
    /\ merged = <<>>
    /\ tagRet = ""
    /\ PlanIdle
    /\ MatchIdle
    /\ PerformIdle
    /\ InitializerIdle

MergeBuilds ==
    /\ pc = "start"
    /\ merged' = MergeWithPreviousBuilds(builds, previous)
    /\ pc' = "merged"
    /\ UNCHANGED <<queryImage, tagRet, previous, planVars, matchVars, performVars, initializerVars>>

LatestTagMerged ==
    /\ pc = "merged"
    /\ tagRet' = latestTag(queryImage, merged)
    /\ pc' = "done"
    /\ UNCHANGED <<queryImage, previous, merged, planVars, matchVars, performVars, initializerVars>>

NextMerge ==
    \/ MergeBuilds
    \/ LatestTagMerged

SpecMerge == InitMerge /\ [][NextMerge]_vars

----------------------------------------------------------------------------
(* Plan execution: Perform run once.  The cluster is the environment: it   *)
(* answers the request for a client, each listing, each invocation of the  *)
(* command generator and each command when Perform gets there.             *)

TargetImage == "img:1"

OtherImage == "img:2"

PodOther == [Containers |-> <<[Image |-> OtherImage]>>]

PodTarget == [Containers |-> <<[Image |-> TargetImage]>>]

PodMixed == [Containers |-> <<[Image |-> OtherImage], [Image |-> TargetImage]>>]

PodTwin == [Containers |-> <<[Image |-> TargetImage], [Image |-> TargetImage]>>]

\* What a listing of one namespace answers.
Listings ==
    {<<>>, <<PodOther>>, <<PodTarget>>, <<PodTwin>>, <<PodMixed, PodTarget>>}

NamespaceLists == {<<>>, <<"ns1">>, <<"ns1", "ns2">>}

SyncMaps ==
    {EmptyMap, [x \in {FileBJs} |-> <<DestApp \o <<"/", "a", "/", "b", ".", "j", "s">>>>]}

\* The k-th command the generator gave for a container.
Cmd(ns, pod, container, k) == [ns |-> ns, pod |-> pod, container |-> container, k |-> k]

\* The error of running cmd.
CmdError(cmd) == [msgs |-> <<"exit status 1">>, cmd |-> Some(cmd)]

Wrap(msg, cause) == [msgs |-> <<msg>> \o cause.msgs, cmd |-> cause.cmd]

ErrClient == [msgs |-> <<"no kubeconfig">>, cmd |-> Nil]

ErrList == [msgs |-> <<"pods is forbidden">>, cmd |-> Nil]

ErrNoSync == [msgs |-> <<"didn't sync any files">>, cmd |-> Nil]

InitPerform ==
    /\ pc = "perform"
    /\ image = TargetImage
    /\ files \in SyncMaps
    /\ namespaces \in NamespaceLists
    /\ PerformLocals
    /\ PlanIdle
    /\ builds = <<>>
    /\ MatchIdle
    /\ TagIdle
    /\ InitializerIdle

Return(err) ==
    /\ perr' = err
    /\ pc' = "done"

performInputs == <<image, files, namespaces>>

otherVars == <<planVars, matchVars, tagVars, initializerVars>>

\* PerformEnter without the return on an empty map.
PerformEnterAlways ==
    /\ pc = "perform"
    /\ \/ /\ clientCalls' = Append(clientCalls, [ok |-> FALSE])
          /\ Return(Wrap("getting k8s client", ErrClient))
          /\ UNCHANGED nsIdx
       \/ /\ clientCalls' = Append(clientCalls, [ok |-> TRUE])
          /\ nsIdx' = 1
          /\ pc' = "namespaces"
          /\ UNCHANGED perr
    /\ UNCHANGED <<performInputs, pods, podIdx, cIdx, cmds, cmdIdx, numSynced,
                   listCalls, genCalls, ran, otherVars>>

\* Lines 153-162: the empty map, the client.
PerformEnter ==
    /\ pc = "perform"
    /\ IF DOMAIN files = {}
       THEN /\ Return(NoError)
            /\ UNCHANGED <<clientCalls, nsIdx>>
       ELSE \/ /\ clientCalls' = Append(clientCalls, [ok |-> FALSE])
               /\ Return(Wrap("getting k8s client", ErrClient))
               /\ UNCHANGED nsIdx
            \/ /\ clientCalls' = Append(clientCalls, [ok |-> TRUE])
               /\ nsIdx' = 1
               /\ pc' = "namespaces"
               /\ UNCHANGED perr
    /\ UNCHANGED <<performInputs, pods, podIdx, cIdx, cmds, cmdIdx, numSynced,
                   listCalls, genCalls, ran, otherVars>>

\* ListPods going on to the next namespace when a listing fails, where the
\* code returns.
ListPodsSkippingFailure ==
    /\ pc = "namespaces"
    /\ nsIdx <= Len(namespaces)
    /\ \/ /\ listCalls' = Append(listCalls, [ns |-> nsIdx, ok |-> FALSE, pods |-> <<>>])
          /\ nsIdx' = nsIdx + 1
          /\ UNCHANGED <<pc, perr, pods, podIdx, cIdx>>
       \/ /\ pods' \in Listings
          /\ listCalls' = Append(listCalls, [ns |-> nsIdx, ok |-> TRUE, pods |-> pods'])
          /\ podIdx' = 1
          /\ cIdx' = 1
          /\ pc' = "containers"
          /\ UNCHANGED <<perr, nsIdx>>
    /\ UNCHANGED <<performInputs, cmds, cmdIdx, numSynced, clientCalls,
                   genCalls, ran, otherVars>>

\* Lines 163-167: the next namespace is listed.
ListPods ==
    /\ pc = "namespaces"
    /\ nsIdx <= Len(namespaces)
    /\ \/ /\ listCalls' = Append(listCalls, [ns |-> nsIdx, ok |-> FALSE, pods |-> <<>>])
          /\ Return(Wrap("getting pods for namespace", ErrList))
          /\ UNCHANGED <<pods, podIdx, cIdx>>
       \/ /\ pods' \in Listings
          /\ listCalls' = Append(listCalls, [ns |-> nsIdx, ok |-> TRUE, pods |-> pods'])
          /\ podIdx' = 1
          /\ cIdx' = 1
          /\ pc' = "containers"
          /\ UNCHANGED perr
    /\ UNCHANGED <<performInputs, nsIdx, cmds, cmdIdx, numSynced, clientCalls,
                   genCalls, ran, otherVars>>

\* PerformFinish without the test of the counter.
PerformFinishAlwaysOk ==
    /\ pc = "namespaces"
    /\ nsIdx > Len(namespaces)
    /\ Return(NoError)
    /\ UNCHANGED <<performInputs, nsIdx, pods, podIdx, cIdx, cmds, cmdIdx, numSynced,
                   clientCalls, listCalls, genCalls, ran, otherVars>>

\* Lines 186-190: every namespace was visited.
PerformFinish ==
    /\ pc = "namespaces"
    /\ nsIdx > Len(namespaces)
    /\ Return(IF numSynced = 0 THEN ErrNoSync ELSE NoError)
    /\ UNCHANGED <<performInputs, nsIdx, pods, podIdx, cIdx, cmds, cmdIdx, numSynced,
                   clientCalls, listCalls, genCalls, ran, otherVars>>

\* VisitContainer without the comparison of the container's image.
VisitContainerAnyImage ==
    /\ pc = "containers"
    /\ IF podIdx > Len(pods)
       THEN /\ nsIdx' = nsIdx + 1
            /\ pods' = <<>>
            /\ podIdx' = 0
            /\ cIdx' = 0
            /\ pc' = "namespaces"
            /\ UNCHANGED <<cmds, cmdIdx, genCalls>>
       ELSE IF cIdx > Len(pods[podIdx].Containers)
       THEN /\ podIdx' = podIdx + 1
            /\ cIdx' = 1
            /\ UNCHANGED <<pc, nsIdx, pods, cmds, cmdIdx, genCalls>>
       ELSE /\ \E n \in 0..MaxCmds :
                 /\ cmds' = [k \in 1..n |-> Cmd(nsIdx, podIdx, cIdx, k)]
                 /\ genCalls' = Append(genCalls, [ns |-> nsIdx, pod |-> podIdx,
                                                  container |-> cIdx, n |-> n])
            /\ cmdIdx' = 1
            /\ pc' = "cmds"
            /\ UNCHANGED <<nsIdx, pods, podIdx, cIdx>>
    /\ UNCHANGED <<performInputs, numSynced, perr, clientCalls, listCalls, ran, otherVars>>

\* Lines 169-175: one step of the loops over the pods and their containers.
VisitContainer ==
    /\ pc = "containers"
    /\ IF podIdx > Len(pods)
       THEN /\ nsIdx' = nsIdx + 1
            /\ pods' = <<>>
            /\ podIdx' = 0
            /\ cIdx' = 0
            /\ pc' = "namespaces"
            /\ UNCHANGED <<cmds, cmdIdx, genCalls>>
       ELSE IF cIdx > Len(pods[podIdx].Containers)
       THEN /\ podIdx' = podIdx + 1
            /\ cIdx' = 1
            /\ UNCHANGED <<pc, nsIdx, pods, cmds, cmdIdx, genCalls>>
       ELSE IF pods[podIdx].Containers[cIdx].Image # image
       THEN /\ cIdx' = cIdx + 1
            /\ UNCHANGED <<pc, nsIdx, pods, podIdx, cmds, cmdIdx, genCalls>>
       ELSE /\ \E n \in 0..MaxCmds :
                 /\ cmds' = [k \in 1..n |-> Cmd(nsIdx, podIdx, cIdx, k)]
                 /\ genCalls' = Append(genCalls, [ns |-> nsIdx, pod |-> podIdx,
                                                  container |-> cIdx, n |-> n])
            /\ cmdIdx' = 1
            /\ pc' = "cmds"
            /\ UNCHANGED <<nsIdx, pods, podIdx, cIdx>>
    /\ UNCHANGED <<performInputs, numSynced, perr, clientCalls, listCalls, ran, otherVars>>

\* NextCmd taking the commands from the last to the first.
NextCmdReversed(cs, i) == cs[Len(cs) + 1 - i]

\* Line 176: the command the loop over cmds takes at its i-th turn.
NextCmd(cs, i) == cs[i]

\* RunCmd going on to the next command when one fails, where the code
\* returns its error.
RunCmdSkippingFailure ==
    /\ pc = "cmds"
    /\ IF cmdIdx > Len(cmds)
       THEN /\ cIdx' = cIdx + 1
            /\ cmds' = <<>>
            /\ cmdIdx' = 0
            /\ pc' = "containers"
            /\ UNCHANGED <<numSynced, perr, ran>>
       ELSE \/ /\ ran' = Append(ran, [cmd |-> NextCmd(cmds, cmdIdx), ok |-> FALSE])
               /\ cmdIdx' = cmdIdx + 1
               /\ UNCHANGED <<pc, cIdx, cmds, perr, numSynced>>
            \/ /\ ran' = Append(ran, [cmd |-> NextCmd(cmds, cmdIdx), ok |-> TRUE])
               /\ numSynced' = numSynced + 1
               /\ cmdIdx' = cmdIdx + 1
               /\ UNCHANGED <<pc, cIdx, cmds, perr>>
    /\ UNCHANGED <<performInputs, nsIdx, pods, podIdx, clientCalls, listCalls,
                   genCalls, otherVars>>

\* Lines 176-181: one step of the loop over the commands of a container.
RunCmd ==
    /\ pc = "cmds"
    /\ IF cmdIdx > Len(cmds)
       THEN /\ cIdx' = cIdx + 1
            /\ cmds' = <<>>
            /\ cmdIdx' = 0
            /\ pc' = "containers"
            /\ UNCHANGED <<numSynced, perr, ran>>
       ELSE \/ /\ ran' = Append(ran, [cmd |-> NextCmd(cmds, cmdIdx), ok |-> FALSE])
               /\ Return(CmdError(NextCmd(cmds, cmdIdx)))
               /\ UNCHANGED <<cIdx, cmds, cmdIdx, numSynced>>
            \/ /\ ran' = Append(ran, [cmd |-> NextCmd(cmds, cmdIdx), ok |-> TRUE])
               /\ numSynced' = numSynced + 1
               /\ cmdIdx' = cmdIdx + 1
               /\ UNCHANGED <<pc, cIdx, cmds, perr>>
    /\ UNCHANGED <<performInputs, nsIdx, pods, podIdx, clientCalls, listCalls,
                   genCalls, otherVars>>

NextPerform ==
    \/ PerformEnter
    \/ ListPods
    \/ PerformFinish
    \/ VisitContainer
    \/ RunCmd

SpecPerform == InitPerform /\ [][NextPerform]_vars

\* The commands that ran successfully, in order.
Applied == SelectSeq(ran, LAMBDA r : r.ok)

----------------------------------------------------------------------------
(* pkg/skaffold/initializer: autoSelectBuilders run once on a list of      *)
(* builders and a list of images.  A builder is told from the others by    *)
(* its place in the list it came in, kept in id.                           *)

ConfiguredImages == {"", "img", "other"}

ManifestImages == {"img", "other"}

\* The builder lists autoSelectBuilders is run on.
BuilderLists ==
    {[i \in 1..n |-> [id |-> i, ConfiguredImage |-> f[i]]] :
        <<n, f>> \in {t \in (0..MaxBuilderConfigs) \X
                              SeqsUpTo(ConfiguredImages, MaxBuilderConfigs) :
                          Len(t[2]) = t[1]}}

RemoveAt(s, i) == SubSeq(s, 1, i - 1) \o SubSeq(s, i + 1, Len(s))

\* matchingConfigIndex taking the first builder of the image, however many
\* there are.
firstMatchingConfigIndex(configs, img) ==
    IF \E i \in 1..Len(configs) : configs[i].ConfiguredImage = img
    THEN CHOOSE i \in 1..Len(configs) :
             /\ configs[i].ConfiguredImage = img
             /\ \A j \in 1..(i - 1) : configs[j].ConfiguredImage # img
    ELSE -1

RECURSIVE scanConfigs(_, _, _, _)
\* Lines 193-204: the loop over the builders from the i-th on, idx the place
\* of the match found so far and -1 when there is none.
scanConfigs(configs, img, i, idx) ==
    IF i > Len(configs) THEN idx
    ELSE IF img # configs[i].ConfiguredImage
    THEN scanConfigs(configs, img, i + 1, idx)
    ELSE IF idx # -1 THEN -1
    ELSE scanConfigs(configs, img, i + 1, i)

\* Lines 192-204: the place of the only builder of the image, -1 when there
\* is none or more than one.
matchingConfigIndex(configs, img) == scanConfigs(configs, img, 1, -1)

\* The builders of configs whose configured image is img, by their place.
MatchingConfigs(configs, img) ==
    {i \in 1..Len(configs) : configs[i].ConfiguredImage = img}

InitSelect ==
    /\ pc = "select"
    /\ inputBuilders \in BuilderLists
    /\ builderConfigs = inputBuilders
    /\ images \in SeqsUpTo(ManifestImages, MaxImages)
    /\ imgIdx = 1
    /\ pairs = <<>>
    /\ unresolvedImages = <<>>
    /\ selectLog = <<>>
    /\ DoInitIdle
    /\ PlanIdle
    /\ builds = <<>>
    /\ MatchIdle
    /\ TagIdle
    /\ PerformIdle

\* Lines 191-214: one turn of the loop over the images.
SelectBuilder ==
    /\ pc = "select"
    /\ imgIdx <= Len(images)
    /\ \E idx \in {matchingConfigIndex(builderConfigs, images[imgIdx])} :
           /\ IF idx # -1
              THEN /\ pairs' = Append(pairs, [ImageName |-> images[imgIdx],
                                              Builder |-> builderConfigs[idx]])
                   /\ builderConfigs' = RemoveAt(builderConfigs, idx)
                   /\ UNCHANGED unresolvedImages
              ELSE /\ unresolvedImages' = Append(unresolvedImages, images[imgIdx])
                   /\ UNCHANGED <<pairs, builderConfigs>>
           /\ selectLog' = Append(selectLog,
                                  [image |-> images[imgIdx],
                                   matches |-> Cardinality(MatchingConfigs(builderConfigs,
                                                                           images[imgIdx])),
                                   paired |-> idx # -1])
    /\ imgIdx' = imgIdx + 1
    /\ UNCHANGED <<pc, inputBuilders, images, doInitVars, planVars, matchVars, tagVars,
                   performVars>>

\* Line 215: the pairs, the builders left and the unresolved images are
\* returned.
SelectReturn ==
    /\ pc = "select"
    /\ imgIdx > Len(images)
    /\ pc' = "done"
    /\ UNCHANGED <<selectVars, doInitVars, planVars, matchVars, tagVars, performVars>>

NextSelect ==
    \/ SelectBuilder
    \/ SelectReturn

SpecSelect == InitSelect /\ [][NextSelect]_vars

----------------------------------------------------------------------------
(* pkg/skaffold/initializer: DoInit run once.  What comes before the       *)
(* pipeline is generated (kompose, the walk of the directory, the analysis *)
(* and the choice of builders) is one step that fails, prints the analysis *)
(* or goes on.  The input stream, the file system and that step are the    *)
(* environment.  A line read is a sequence of one-character strings.       *)

UpperCase ==
    <<"A", "B", "C", "D", "E", "F", "G", "H", "I", "J", "K", "L", "M",
      "N", "O", "P", "Q", "R", "S", "T", "U", "V", "W", "X", "Y", "Z">>

LowerCase ==
    <<"a", "b", "c", "d", "e", "f", "g", "h", "i", "j", "k", "l", "m",
      "n", "o", "p", "q", "r", "s", "t", "u", "v", "w", "x", "y", "z">>

\* strings.ToLower on the letters A to Z.
ToLower(s) ==
    [i \in 1..Len(s) |->
        IF \E k \in 1..26 : UpperCase[k] = s[i]
        THEN LowerCase[CHOOSE k \in 1..26 : UpperCase[k] = s[i]]
        ELSE s[i]]

WhiteSpace == {" ", "\t", "\n", "\r", "\f"}

RECURSIVE TrimLeft(_)
TrimLeft(s) ==
    IF s # <<>> /\ Head(s) \in WhiteSpace THEN TrimLeft(Tail(s)) ELSE s

RECURSIVE TrimRight(_)
TrimRight(s) ==
    IF s # <<>> /\ s[Len(s)] \in WhiteSpace
    THEN TrimRight(SubSeq(s, 1, Len(s) - 1))
    ELSE s

\* strings.TrimSpace: the white space at both ends removed.
TrimSpace(s) == TrimRight(TrimLeft(s))

\* Answer without strings.TrimSpace.
AnswerUntrimmed(response) == ToLower(response)

\* Line 165: the response the switch looks at.
Answer(response) == ToLower(TrimSpace(response))

AnswersYes == {<<"y">>, <<"y", "e", "s">>}

AnswersNo == {<<"n">>, <<"n", "o">>}

ErrEOF == <<"EOF">>

Line(s) == [data |-> s, err |-> NilErr]

\* What reader.ReadString gives: a line with its end, or what was there
\* before the input ended, with the error.
ReadUniverse ==
    {Line(<<"y", "\n">>), Line(<<" ", "Y", "E", "S", " ", "\n">>),
     Line(<<"Y", "e", "s", "\r", "\n">>),
     Line(<<"n", "\n">>), Line(<<"\t", "N", "o", "\n">>),
     Line(<<"\n">>), Line(<<"y", " ", "e", "s", "\n">>), Line(<<"y", "e", "s", "s", "\n">>),
     [data |-> <<>>, err |-> ErrEOF], [data |-> <<"y">>, err |-> ErrEOF]}

ConfigurationFiles == {"-", "skaffold.yaml"}

ErrPrepare == <<"one or more valid Dockerfiles must be present">>

ErrWrite == <<"writing config to file", "permission denied">>

InitDoInit ==
    /\ pc = "doinit"
    /\ configFile \in ConfigurationFiles
    /\ force \in BOOLEAN
    /\ out = <<>>
    /\ reads = <<>>
    /\ fileWrites = <<>>
    /\ initErr = NilErr
    /\ SelectIdle
    /\ PlanIdle
    /\ builds = <<>>
    /\ MatchIdle
    /\ TagIdle
    /\ PerformIdle

notDoInitVars == <<selectVars, planVars, matchVars, tagVars, performVars>>

\* Lines 96-145: an error ends DoInit, the analysis is printed and ends it,
\* or the pipeline is generated.
DoInitPrepare ==
    /\ pc = "doinit"
    /\ \/ /\ initErr' = ErrPrepare
          /\ pc' = "done"
          /\ UNCHANGED out
       \/ /\ out' = Append(out, "analysis")
          /\ pc' = "done"
          /\ UNCHANGED initErr
       \/ /\ pc' = "target"
          /\ UNCHANGED <<out, initErr>>
    /\ UNCHANGED <<configFile, force, reads, fileWrites, notDoInitVars>>

\* Lines 147-155: the pipeline goes to the output stream when the target is
\* "-", and is shown before the question unless Force is set.
DoInitTarget ==
    /\ pc = "target"
    /\ IF configFile = "-"
       THEN /\ out' = Append(out, "pipeline")
            /\ pc' = "done"
       ELSE IF ~force
       THEN /\ out' = Append(out, "pipeline")
            /\ pc' = "confirm"
       ELSE /\ pc' = "write"
            /\ UNCHANGED out
    /\ UNCHANGED <<configFile, force, reads, fileWrites, initErr, notDoInitVars>>

\* Lines 157-171: one turn of confirmLoop.
Confirm ==
    /\ pc = "confirm"
    /\ Len(reads) < MaxReads
    /\ out' = Append(out, "question")
    /\ \E r \in ReadUniverse :
           /\ reads' = Append(reads, r)
           /\ IF r.err # NilErr
              THEN /\ initErr' = <<"reading user confirmation">> \o r.err
                   /\ pc' = "done"
              ELSE /\ pc' = IF Answer(r.data) \in AnswersYes THEN "write"
                            ELSE IF Answer(r.data) \in AnswersNo THEN "done"
                            ELSE "confirm"
                   /\ UNCHANGED initErr
    /\ UNCHANGED <<configFile, force, fileWrites, notDoInitVars>>

\* Lines 175-182: the file is written and the user told, or the error of
\* WriteFile returned.
WriteConfig ==
    /\ pc = "write"
    /\ \/ /\ fileWrites' = Append(fileWrites, [name |-> configFile, ok |-> TRUE])
          /\ out' = out \o <<"written", "tips">>
          /\ UNCHANGED initErr
       \/ /\ fileWrites' = Append(fileWrites, [name |-> configFile, ok |-> FALSE])
          /\ initErr' = ErrWrite
          /\ UNCHANGED out
    /\ pc' = "done"
    /\ UNCHANGED <<configFile, force, reads, notDoInitVars>>

NextDoInit ==
    \/ DoInitPrepare
    \/ DoInitTarget
    \/ Confirm
    \/ WriteConfig

SpecDoInit == InitDoInit /\ [][NextDoInit]_vars

----------------------------------------------------------------------------
(* Properties of plan building, stated on the inputs of NewItem.           *)

Rules == a.Sync[1].Manual

ChangedPaths == Range(e.Added \o e.Modified \o e.Deleted)

\* The batch has changes and the artifact declares at least one rule.
GuardPassed == HasChanged(e) /\ ~IsNil(a.Sync) /\ Len(Rules) > 0

RuleMatch(i, p) == PathMatch(FromSlash(Rules[i].Src), Rel(a.Workspace, p).path)

\* Path p is relative to the workspace and no rule matches it.
MatchesNoRule(p) ==
    /\ Rel(a.Workspace, p).err = NilErr
    /\ \A i \in 1..Len(Rules) : RuleMatch(i, p) = NOMATCH

\* Path p is relative to the workspace and some rule matches it, none failing.
MatchesSomeRule(p) ==
    /\ Rel(a.Workspace, p).err = NilErr
    /\ \A i \in 1..Len(Rules) : RuleMatch(i, p) # BADPATTERN
    /\ \E i \in 1..Len(Rules) : RuleMatch(i, p) = MATCH

\* Path p is not relative to the workspace, or a rule with a bad pattern is reached.
HardError(p) ==
    \/ Rel(a.Workspace, p).err # NilErr
    \/ \E i \in 1..Len(Rules) : RuleMatch(i, p) = BADPATTERN

\* A path of the list raises a hard error before any path matched no rule.
ListFails(paths) ==
    \E i \in 1..Len(paths) :
        /\ HardError(paths[i])
        /\ \A j \in 1..(i - 1) : ~MatchesNoRule(paths[j])

\* The first build of the artifact's image exists and has a tag.
TagResolved ==
    \E i \in 1..Len(builds) :
        /\ builds[i].ImageName = a.ImageName
        /\ builds[i].Tag # ""
        /\ \A j \in 1..(i - 1) : builds[j].ImageName # a.ImageName

\* C1 as claimed, taken where the tag and the working directory resolve, so
\* that both intersections are reached: with changes and rules, whenever some
\* changed path matches no rule NewItem returns (nil, nil).
C1_AbortWheneverAPathIsUnmatched ==
    (/\ pc = "done"
     /\ GuardPassed
     /\ TagResolved
     /\ wdEnv.err = NilErr
     /\ \E p \in ChangedPaths : MatchesNoRule(p))
        => ret = NoRet

\* C1 as amended: with changes and rules, whenever some changed path matches
\* no rule NewItem returns no plan, however many other paths matched; it
\* returns no error either exactly when the tag and the working directory
\* resolve and neither intersection meets a hard error before its first
\* unmatched path.
C1_UnmatchedPathNeverYieldsPlan ==
    (pc = "done" /\ GuardPassed /\ \E p \in ChangedPaths : MatchesNoRule(p))
        => /\ IsNil(ret.item)
           /\ ret.err = NilErr <=>
                  /\ TagResolved
                  /\ wdEnv.err = NilErr
                  /\ ~ListFails(e.Added \o e.Modified)
                  /\ ~ListFails(e.Deleted)

\* A batch with a matched and an unmatched path came back as (nil, nil).
C1_Witness ==
    /\ pc = "done"
    /\ GuardPassed
    /\ \E p \in ChangedPaths : MatchesNoRule(p)
    /\ \E p \in ChangedPaths : MatchesSomeRule(p)
    /\ TagResolved
    /\ ret = NoRet
    /\ Len(calls) = 4

\* C2: a returned plan has exactly the added and modified paths as the keys
\* of Copy and exactly the deleted paths as the keys of Delete, and every key
\* has at least one destination.
C2_PlanComplete ==
    (pc = "done" /\ ~IsNil(ret.item))
        => LET item == ret.item[1] IN
           /\ DOMAIN item.Copy = Range(e.Added) \cup Range(e.Modified)
           /\ DOMAIN item.Delete = Range(e.Deleted)
           /\ \A f \in DOMAIN item.Copy : Len(item.Copy[f]) >= 1
           /\ \A f \in DOMAIN item.Delete : Len(item.Delete[f]) >= 1

\* A plan came back for a batch with an added, a modified and no deleted path.
C2_Witness ==
    /\ pc = "done"
    /\ ~IsNil(ret.item)
    /\ Len(e.Added) = 1
    /\ Len(e.Modified) = 1
    /\ e.Added # e.Modified
    /\ Cardinality(DOMAIN ret.item[1].Copy) = 2

\* C3: without changes, or without sync rules, NewItem returns (nil, nil)
\* and calls neither latestTag, nor WorkingDir, nor intersect.
C3_NoOpWithoutCalls ==
    (pc = "done" /\ ~GuardPassed) => (ret = NoRet /\ calls = <<>>)

\* NewItem returned on a batch with changes for an artifact with an empty
\* rule list, with builds that have no tag for it.
C3_Witness ==
    /\ pc = "done"
    /\ HasChanged(e)
    /\ ~IsNil(a.Sync)
    /\ Len(Rules) = 0
    /\ ~TagResolved
    /\ ret = NoRet

\* C9: past the guard, when no build has the artifact's image name or the
\* first that has it has an empty tag, NewItem returns an error and no plan,
\* and calls neither WorkingDir nor intersect.
C9_MissingTagIsError ==
    (pc = "done" /\ GuardPassed /\ ~TagResolved)
        => /\ IsNil(ret.item)
           /\ ret.err # NilErr
           /\ \A i \in 1..Len(calls) : calls[i].fn = "latestTag"

\* NewItem returned where the first build of the image has an empty tag and
\* a later one has a tag.
C9_Witness ==
    /\ pc = "done"
    /\ GuardPassed
    /\ \E i \in 1..Len(builds) : builds[i].ImageName = a.ImageName /\ builds[i].Tag # ""
    /\ ~TagResolved
    /\ ret.err # NilErr

\* What intersect gives for a list of changed paths of the batch.
Intersected(paths) == intersect(a.Workspace, wdEnv.dir, Rules, paths)

\* toCopy and toDelete, what intersect gave for the two lists, are errors,
\* without a map, exactly when their list fails, which is what copyFails and
\* deleteFails tell; NewItem then returned an error and no plan, and no
\* error when neither fails and the tag and the working directory resolve.
HardErrorsReturned(copyFails, deleteFails, toCopy, toDelete) ==
    /\ toCopy.err # NilErr <=> copyFails
    /\ toCopy.err # NilErr => IsNil(toCopy.m)
    /\ toDelete.err # NilErr <=> deleteFails
    /\ toDelete.err # NilErr => IsNil(toDelete.m)
    /\ (copyFails \/ deleteFails) => (ret.err # NilErr /\ IsNil(ret.item))
    /\ (TagResolved /\ wdEnv.err = NilErr /\ ~copyFails /\ ~deleteFails)
           => ret.err = NilErr

\* C14 as claimed: past the guard, whenever some changed path is not relative
\* to the workspace or meets a malformed pattern, NewItem returns an error
\* and no plan.
C14_AnyHardErrorIsReturned ==
    (pc = "done" /\ GuardPassed /\ \E p \in ChangedPaths : HardError(p))
        => (ret.err # NilErr /\ IsNil(ret.item))

\* C14 as amended: intersect returns an error, and no map, exactly for a list
\* in which a path that is not relative to the workspace or meets a
\* malformed pattern comes before every path that matches no rule; past the
\* guard NewItem then returns an error and no plan, and when neither list is
\* such and the tag and the working directory resolve it returns no error.
C14_ReachedHardErrorIsReturned ==
    (pc = "done" /\ GuardPassed)
        => HardErrorsReturned(ListFails(e.Added \o e.Modified), ListFails(e.Deleted),
                              Intersected(e.Added \o e.Modified), Intersected(e.Deleted))

\* NewItem returned an error for a batch whose copy list is matched and whose
\* deleted list has a matched path before one that meets a malformed pattern.
C14_Witness ==
    /\ pc = "done"
    /\ GuardPassed
    /\ TagResolved
    /\ wdEnv.err = NilErr
    /\ Len(e.Deleted) = 2
    /\ MatchesSomeRule(e.Deleted[1])
    /\ \E i \in 1..Len(Rules) : RuleMatch(i, e.Deleted[2]) = BADPATTERN
    /\ ret.err # NilErr
    /\ IsNil(ret.item)

\* The tag of the first build of the artifact's image.
ResolvedTag ==
    builds[CHOOSE i \in 1..Len(builds) :
               /\ builds[i].ImageName = a.ImageName
               /\ \A j \in 1..(i - 1) : builds[j].ImageName # a.ImageName].Tag

\* The calls of fn among the calls NewItem made.
CallsOf(fn) == SelectSeq(calls, LAMBDA c : c.fn = fn)

\* C18: past the guard and with a tag resolved, NewItem calls WorkingDir
\* once, with the resolved tag and not with the image name; when WorkingDir
\* fails NewItem returns its error wrapped and no plan and makes no call of
\* intersect; when it succeeds a returned plan has the resolved tag as Image.
C18_WorkingDirResolvedOnceWithTag ==
    (pc = "done" /\ GuardPassed /\ TagResolved)
        => /\ Len(CallsOf("WorkingDir")) = 1
           /\ CallsOf("WorkingDir")[1].tag = ResolvedTag
           /\ CallsOf("WorkingDir")[1].tag # a.ImageName
           /\ wdEnv.err # NilErr
                  => /\ ret = [item |-> Nil,
                               err |-> <<"retrieving working dir">> \o wdEnv.err]
                     /\ ret.err # NilErr
                     /\ CallsOf("intersect") = <<>>
           /\ (wdEnv.err = NilErr /\ ~IsNil(ret.item))
                  => ret.item[1].Image = ResolvedTag

\* NewItem returned the error of WorkingDir, called with the tag of the
\* second build of the list, for a batch every path of which matches a rule.
C18_Witness ==
    /\ pc = "done"
    /\ GuardPassed
    /\ TagResolved
    /\ builds[1].ImageName # a.ImageName
    /\ \A p \in ChangedPaths : MatchesSomeRule(p)
    /\ wdEnv.err # NilErr
    /\ ret.err = <<"retrieving working dir">> \o wdEnv.err
    /\ calls[Len(calls)] = Call("WorkingDir", "img:2", <<>>)

\* NewItem got past the guard, the tag, the working directory and both
\* intersections without an error, and a changed path matched no rule: the
\* return of line 85.
AbortedOnMismatch ==
    /\ GuardPassed
    /\ TagResolved
    /\ wdEnv.err = NilErr
    /\ ~ListFails(e.Added \o e.Modified)
    /\ ~ListFails(e.Deleted)
    /\ \E p \in ChangedPaths : MatchesNoRule(p)

\* What NewItem returns on artifact art and batch ev with the builds and the
\* working directory of this run.
Returned(art, ev) ==
    [item |-> NewItemResult(art, ev, builds, wdEnv).item,
     err |-> NewItemResult(art, ev, builds, wdEnv).err]

\* C19 as claimed: what NewItem returns when a changed path matched no rule
\* differs from what it returns on every artifact and batch that stop at
\* the guard, so that the returned pair tells the two outcomes apart.
C19_AbortDiffersFromNoOp ==
    (pc = "done" /\ AbortedOnMismatch)
        => \A art \in Artifacts :
               \A ev \in Batches :
                   NoOp(art, ev) => Returned(art, ev) # ret

\* Path p ends an intersection: it is not relative to the workspace, meets a
\* malformed pattern, or matches no rule.
Decides(p) == HardError(p) \/ MatchesNoRule(p)

\* The place of the first path of the list that ends an intersection, 0 when
\* there is none.
FirstDeciding(paths) ==
    IF \E i \in 1..Len(paths) : Decides(paths[i])
    THEN CHOOSE i \in 1..Len(paths) :
             Decides(paths[i]) /\ \A j \in 1..(i - 1) : ~Decides(paths[j])
    ELSE 0

\* res, what intersect gave for the list, is decided by the k-th path: an
\* error when that path raises one, no map and no error when it matches no
\* rule, and the same whatever follows it; with k = 0 every path is in the
\* map.
DecidedAt(paths, k, res) ==
    IF k = 0
    THEN /\ res.err = NilErr
         /\ ~IsNil(res.m)
         /\ DOMAIN res.m[1] = Range(paths)
    ELSE /\ IsNil(res.m)
         /\ HardError(paths[k]) <=> res.err # NilErr
         /\ MatchesNoRule(paths[k]) <=> res.err = NilErr
         /\ Intersected(SubSeq(paths, 1, k)) = res
         /\ \A f \in FileUniverse :
                Intersected(Append(SubSeq(paths, 1, k), f)) = res

\* NewItem made its calls of intersect and returned as toCopy and toDelete,
\* what intersect gave for the two lists, require: an error of the first
\* before the second call, else an error of the second.
CopyDecidesFirst(toCopy, toDelete) ==
    /\ CallsOf("intersect")[1] = Call("intersect", ResolvedTag, e.Added \o e.Modified)
    /\ toCopy.err # NilErr
           => /\ Len(CallsOf("intersect")) = 1
              /\ ret = [item |-> Nil,
                        err |-> <<"intersecting sync map and added, modified files">>
                                    \o toCopy.err]
    /\ toCopy.err = NilErr
           => /\ Len(CallsOf("intersect")) = 2
              /\ CallsOf("intersect")[2] = Call("intersect", ResolvedTag, e.Deleted)
              /\ toDelete.err # NilErr
                     => ret = [item |-> Nil,
                               err |-> <<"intersecting sync map and deleted files">>
                                           \o toDelete.err]

\* C20: an intersection is decided by the first path of its list, in batch
\* order, that is not relative to the workspace, meets a malformed pattern or
\* matches no rule, whatever the later paths are.  NewItem intersects the
\* added and modified paths first and returns an error of that intersection
\* without intersecting the deleted paths; when the first intersection gives
\* no map and no error the deleted paths are intersected all the same, and an
\* error of that intersection is returned.
C20_FirstDecidingPathAndCopyFirst ==
    (pc = "done" /\ GuardPassed /\ TagResolved /\ wdEnv.err = NilErr)
        => /\ DecidedAt(e.Added \o e.Modified, FirstDeciding(e.Added \o e.Modified),
                        Intersected(e.Added \o e.Modified))
           /\ DecidedAt(e.Deleted, FirstDeciding(e.Deleted), Intersected(e.Deleted))
           /\ CopyDecidesFirst(Intersected(e.Added \o e.Modified), Intersected(e.Deleted))

\* NewItem returned the error of the intersection of the deleted paths after
\* the intersection of the added paths gave no map on an unmatched path.
C20_Witness ==
    /\ pc = "done"
    /\ GuardPassed
    /\ TagResolved
    /\ wdEnv.err = NilErr
    /\ Len(e.Added) = 1
    /\ MatchesNoRule(e.Added[1])
    /\ Intersected(e.Added \o e.Modified) = [m |-> Nil, err |-> NilErr]
    /\ Len(e.Deleted) = 1
    /\ HardError(e.Deleted[1])
    /\ Len(calls) = 4
    /\ IsNil(ret.item)
    /\ ret.err = <<"intersecting sync map and deleted files">> \o Intersected(e.Deleted).err

----------------------------------------------------------------------------
(* Properties of latestTag.                                                *)

\* C8: latestTag returns the tag of the first build with the image name, and
\* "" when no build has it.
C8_LatestTagFirstMatch ==
    pc = "done" =>
        IF \E i \in 1..Len(builds) : builds[i].ImageName = queryImage
        THEN \E i \in 1..Len(builds) :
                 /\ builds[i].ImageName = queryImage
                 /\ \A j \in 1..(i - 1) : builds[j].ImageName # queryImage
                 /\ tagRet = builds[i].Tag
        ELSE tagRet = ""

\* latestTag returned on builds where two entries of the image have
\* different tags.
C8_Witness ==
    /\ pc = "done"
    /\ \E i, j \in 1..Len(builds) :
           /\ i < j
           /\ builds[i].ImageName = queryImage
           /\ builds[j].ImageName = queryImage
           /\ builds[i].Tag # builds[j].Tag
           /\ tagRet = builds[i].Tag
           /\ \A k \in 1..(i - 1) : builds[k].ImageName # queryImage

----------------------------------------------------------------------------
(* Properties of MergeWithPreviousBuilds.                                  *)

BuiltNames == {builds[i].ImageName : i \in 1..Len(builds)}

PreviousNames == {previous[i].ImageName : i \in 1..Len(previous)}

\* C13: the merged list is builds, in order, followed by the entries of
\* previous whose image name is not in builds, in order, and by no other
\* entry; latestTag over it is latestTag over builds for an image name in
\* builds and latestTag over previous for an image name only in previous.
C13_MergeKeepsBuildsFirst ==
    /\ pc \in {"merged", "done"}
           => /\ IsPrefix(builds, merged)
              /\ SubSeq(merged, Len(builds) + 1, Len(merged))
                     = SelectSeq(previous, LAMBDA b : b.ImageName \notin BuiltNames)
              /\ \A i \in (Len(builds) + 1)..Len(merged) :
                     merged[i].ImageName \notin BuiltNames
    /\ pc = "done"
           => /\ queryImage \in BuiltNames => tagRet = latestTag(queryImage, builds)
              /\ queryImage \in PreviousNames \ BuiltNames
                     => tagRet = latestTag(queryImage, previous)

\* A merge returned where previous has an entry of an image that was built
\* again, with another tag, before an entry of an image that was not, and
\* latestTag gave the tag of the new build.
C13_Witness ==
    /\ pc = "done"
    /\ Len(previous) = 2
    /\ previous[1].ImageName \in BuiltNames
    /\ previous[2].ImageName \notin BuiltNames
    /\ queryImage = previous[1].ImageName
    /\ latestTag(queryImage, previous) # latestTag(queryImage, builds)
    /\ tagRet = latestTag(queryImage, builds)
    /\ merged = Append(builds, previous[2])

----------------------------------------------------------------------------
(* Properties of matchSyncRules.                                           *)

\* The rules that match relPath, by their place in the list, in list order.
MatchingRules ==
    SelectSeq([i \in 1..Len(syncRules) |-> i],
              LAMBDA i : PathMatch(FromSlash(syncRules[i].Src), relPath) = MATCH)

NoPatternError ==
    \A i \in 1..Len(syncRules) :
        PathMatch(FromSlash(syncRules[i].Src), relPath) # BADPATTERN

\* C10: without a pattern error matchSyncRules returns one destination for
\* each matching rule, in the order of the rules, equal destinations
\* included, and nothing for the other rules.
C10_OneDestinationPerMatchingRule ==
    (pc = "done" /\ NoPatternError)
        => /\ matchRet.err = NilErr
           /\ ~IsNil(matchRet.dsts)
           /\ Len(matchRet.dsts[1]) = Len(MatchingRules)
           /\ \A j \in 1..Len(MatchingRules) :
                  matchRet.dsts[1][j] =
                      Destination(syncRules[MatchingRules[j]], relPath, containerWd)

\* matchSyncRules returned on a path that two rules match with the same
\* destination.
C10_Witness ==
    /\ pc = "done"
    /\ NoPatternError
    /\ Len(MatchingRules) = 2
    /\ Len(matchRet.dsts[1]) = 2
    /\ matchRet.dsts[1][1] = matchRet.dsts[1][2]

\* C11: the destination of a matching rule with a relative Dest lies under
\* the container working directory followed by Dest, and changes with the
\* working directory; the destination of a matching rule with an absolute
\* Dest lies under Dest itself, not under the working directory, and is the
\* same for every working directory.  Dest "dist" without Strip, working
\* directory "/home/app" and path "x/y.txt" give "/home/app/dist/x/y.txt".
C11_DestBaseIsWdIffDestRelative ==
    (pc = "done" /\ NoPatternError)
        => /\ \A j \in 1..Len(MatchingRules) :
                  IF IsAbs(syncRules[MatchingRules[j]].Dest)
                  THEN /\ HasPrefix(matchRet.dsts[1][j],
                                    syncRules[MatchingRules[j]].Dest \o <<"/">>)
                       /\ ~HasPrefix(matchRet.dsts[1][j], containerWd \o <<"/">>)
                       /\ \A wd \in WdUniverse :
                              matchSyncRules(syncRules, relPath, wd).dsts[1][j]
                                  = matchRet.dsts[1][j]
                  ELSE /\ HasPrefix(matchRet.dsts[1][j],
                                    containerWd \o <<"/">>
                                        \o syncRules[MatchingRules[j]].Dest \o <<"/">>)
                       /\ \A wd \in WdUniverse \ {containerWd} :
                              matchSyncRules(syncRules, relPath, wd).dsts[1][j]
                                  # matchRet.dsts[1][j]
           /\ (syncRules = <<RuleAnyDot>> /\ relPath = RelYTxt /\ containerWd = WdHomeApp)
                  => matchRet.dsts[1] = <<WdHomeApp \o <<"/">> \o DestDist \o <<"/">> \o RelYTxt>>

\* matchSyncRules returned on a path matched by a rule with a relative and a
\* rule with an absolute Dest.
C11_Witness ==
    /\ pc = "done"
    /\ NoPatternError
    /\ Len(MatchingRules) = 2
    /\ ~IsAbs(syncRules[1].Dest)
    /\ IsAbs(syncRules[2].Dest)
    /\ HasPrefix(matchRet.dsts[1][1], containerWd)
    /\ HasPrefix(matchRet.dsts[1][2], syncRules[2].Dest)

\* Where the destinations of rule r start: Dest, under containerWd unless
\* it is absolute.
DestBase(r) == IF IsAbs(r.Dest) THEN r.Dest ELSE containerWd \o <<"/">> \o r.Dest

AppJs == DestApp \o <<"/", "a", "/", "b", ".", "j", "s">>

\* C12: the destination of a matching rule is its base followed by relPath
\* without the Strip prefix when relPath starts with Strip, and by the whole
\* of relPath when it does not, which is no error.  Src "src/**/*.js", Dest
\* "/app", Strip "src/" and file "workspace/src/a/b.js" in workspace
\* "workspace" give "/app/a/b.js".
C12_StripOnlyWhenPrefix ==
    /\ (pc = "done" /\ NoPatternError)
           => /\ matchRet.err = NilErr
              /\ \A j \in 1..Len(MatchingRules) :
                     matchRet.dsts[1][j] =
                         DestBase(syncRules[MatchingRules[j]]) \o <<"/">> \o
                             (IF HasPrefix(relPath, syncRules[MatchingRules[j]].Strip)
                              THEN SubSeq(relPath,
                                          Len(syncRules[MatchingRules[j]].Strip) + 1,
                                          Len(relPath))
                              ELSE relPath)
    /\ (pc = "done" /\ syncRules = <<RuleSrcJs>> /\ relPath = RelBJs)
           => matchRet.dsts[1] = <<AppJs>>
    /\ intersect(WsWorkspace, WdHomeApp, <<RuleSrcJs>>, <<FileBJs>>)
           = [m |-> Some([x \in {FileBJs} |-> <<AppJs>>]), err |-> NilErr]

\* matchSyncRules returned on a path that matches a rule whose Strip it does
\* not start with, and the whole path is under the destination.
C12_Witness ==
    /\ pc = "done"
    /\ syncRules = <<RuleAnyStrip, RuleSrcJs>>
    /\ relPath = RelYTxt
    /\ matchRet.err = NilErr
    /\ matchRet.dsts[1] = <<containerWd \o <<"/">> \o DestDist \o <<"/">> \o RelYTxt>>

----------------------------------------------------------------------------
(* Properties of Perform.                                                  *)

\* Neither the client, nor a listing, nor a command failed.
NoEnvError ==
    /\ \A i \in 1..Len(clientCalls) : clientCalls[i].ok
    /\ \A i \in 1..Len(listCalls) : listCalls[i].ok
    /\ \A i \in 1..Len(ran) : ran[i].ok

\* C4: on an empty sync map Perform returns success without asking for a
\* client, listing a namespace, invoking the generator or running a command.
C4_EmptyMapTouchesNothing ==
    DOMAIN files = {}
        => /\ clientCalls = <<>>
           /\ listCalls = <<>>
           /\ genCalls = <<>>
           /\ ran = <<>>
           /\ pc \in {"perform", "done"}
           /\ pc = "done" => perr = NoError

\* Perform returned on an empty sync map and two namespaces.
C4_Witness ==
    /\ pc = "done"
    /\ DOMAIN files = {}
    /\ Len(namespaces) = 2
    /\ perr = NoError

\* C5: on a non-empty sync map, when Perform returns after no listing and no
\* command failed and no command ran, it returns the "didn't sync any files"
\* error.
C5_ZeroEffectIsFailure ==
    (pc = "done" /\ DOMAIN files # {} /\ NoEnvError /\ Applied = <<>>)
        => perr = ErrNoSync

\* Perform returned the zero-effect error after two namespaces in which a
\* container of the target image got no command from the generator.
C5_Witness ==
    /\ pc = "done"
    /\ Len(listCalls) = 2
    /\ NoEnvError
    /\ \E i \in 1..Len(genCalls) : genCalls[i].n = 0
    /\ Applied = <<>>
    /\ perr = ErrNoSync

\* A failed command is the last one run, Perform has returned its error, and
\* nothing was generated or listed after it.
FailureIsFinal ==
    \A i \in 1..Len(ran) :
        ~ran[i].ok
            => /\ i = Len(ran)
               /\ pc = "done"
               /\ perr = CmdError(ran[i].cmd)
               /\ Last(genCalls).ns = ran[i].cmd.ns
               /\ Last(genCalls).pod = ran[i].cmd.pod
               /\ Last(genCalls).container = ran[i].cmd.container
               /\ Last(listCalls).ns = ran[i].cmd.ns

\* C6: the first command that fails makes Perform return that command's
\* error at once, nothing is run, generated or listed after it, and the
\* commands that ran successfully stay applied.
C6_FirstFailureAborts ==
    /\ []FailureIsFinal
    /\ [][/\ IsPrefix(Applied, Applied')
          /\ pc = "done" => UNCHANGED performVars]_vars

\* The second of three commands failed: the first is applied, the third did
\* not run, and the error is the second's.
C6_Witness ==
    /\ pc = "done"
    /\ Len(cmds) = 3
    /\ ~Last(ran).ok
    /\ Last(ran).cmd = cmds[2]
    /\ Last(Applied).cmd = cmds[1]
    /\ \A i \in 1..Len(ran) : ran[i].cmd # cmds[3]
    /\ perr = CmdError(cmds[2])
    /\ perr # ErrNoSync

\* Every namespace was listed, once and in order, without error.
AllListed ==
    /\ Len(listCalls) = Len(namespaces)
    /\ \A i \in 1..Len(listCalls) : listCalls[i].ns = i /\ listCalls[i].ok

\* The generator was invoked for every listed container of the target image.
AllMatchingGenerated ==
    \A i \in 1..Len(listCalls) :
        \A p \in 1..Len(listCalls[i].pods) :
            \A c \in 1..Len(listCalls[i].pods[p].Containers) :
                listCalls[i].pods[p].Containers[c].Image = image
                    => \E g \in 1..Len(genCalls) :
                           /\ genCalls[g].ns = listCalls[i].ns
                           /\ genCalls[g].pod = p
                           /\ genCalls[g].container = c

\* Every generated command ran successfully.
AllGeneratedRan ==
    \A g \in 1..Len(genCalls) :
        \A k \in 1..genCalls[g].n :
            \E i \in 1..Len(ran) :
                /\ ran[i].ok
                /\ ran[i].cmd = Cmd(genCalls[g].ns, genCalls[g].pod, genCalls[g].container, k)

\* No client request, listing or command is made twice.
NoRetry ==
    /\ Len(clientCalls) <= 1
    /\ \A i, j \in 1..Len(listCalls) : listCalls[i].ns = listCalls[j].ns => i = j
    /\ \A i, j \in 1..Len(ran) : ran[i].cmd = ran[j].cmd => i = j

\* C7: on a non-empty sync map Perform returns success exactly when the
\* client was obtained, every namespace was listed, every command generated
\* for every container of the target image ran successfully and at least one
\* command ran; otherwise it returns the client error, the listing error, the
\* error of a command or the zero-effect error.  Nothing is tried twice.
C7_SuccessIffAllRanAndSomeRan ==
    /\ NoRetry
    /\ (pc = "done" /\ DOMAIN files # {})
           => /\ perr = NoError <=>
                     /\ clientCalls = <<[ok |-> TRUE]>>
                     /\ AllListed
                     /\ AllMatchingGenerated
                     /\ AllGeneratedRan
                     /\ \A i \in 1..Len(ran) : ran[i].ok
                     /\ Len(ran) >= 1
              /\ perr # NoError =>
                     \/ perr = Wrap("getting k8s client", ErrClient)
                     \/ perr = Wrap("getting pods for namespace", ErrList)
                     \/ perr = ErrNoSync
                     \/ ran # <<>> /\ perr = CmdError(Last(ran).cmd)

\* Perform returned success after two namespaces with containers of the
\* target image in both.
C7_Witness ==
    /\ pc = "done"
    /\ perr = NoError
    /\ Len(listCalls) = 2
    /\ \E g, h \in 1..Len(genCalls) : genCalls[g].ns = 1 /\ genCalls[h].ns = 2
    /\ Len(Applied) >= 2

\* Container g comes before container h in the order of namespaces, pods and
\* containers.
ContainerBefore(g, h) ==
    \/ g.ns < h.ns
    \/ g.ns = h.ns /\ g.pod < h.pod
    \/ g.ns = h.ns /\ g.pod = h.pod /\ g.container < h.container

\* Command c comes before command d in the order of namespaces, pods,
\* containers and generated commands.
CmdBefore(c, d) ==
    \/ ContainerBefore(c, d)
    \/ c.ns = d.ns /\ c.pod = d.pod /\ c.container = d.container /\ c.k < d.k

\* The listings, the invocations of the generator and the commands were made
\* in that order, and every command generated before a command that ran has
\* itself run before it, successfully.
LogsInOrder ==
    /\ \A i \in 1..Len(listCalls) : listCalls[i].ns = i
    /\ \A i, j \in 1..Len(genCalls) : i < j => ContainerBefore(genCalls[i], genCalls[j])
    /\ \A i, j \in 1..Len(ran) : i < j => CmdBefore(ran[i].cmd, ran[j].cmd)
    /\ \A i \in 1..Len(ran) :
           /\ \E g \in 1..Len(genCalls) :
                  /\ genCalls[g].ns = ran[i].cmd.ns
                  /\ genCalls[g].pod = ran[i].cmd.pod
                  /\ genCalls[g].container = ran[i].cmd.container
                  /\ ran[i].cmd.k \in 1..genCalls[g].n
           /\ \A g \in 1..Len(genCalls) :
                  \A k \in 1..genCalls[g].n :
                      CmdBefore(Cmd(genCalls[g].ns, genCalls[g].pod,
                                    genCalls[g].container, k), ran[i].cmd)
                          => \E j \in 1..(i - 1) :
                                 ran[j] = [cmd |-> Cmd(genCalls[g].ns, genCalls[g].pod,
                                                       genCalls[g].container, k),
                                           ok |-> TRUE]

\* A namespace is listed, and the generator invoked, only when every command
\* generated so far has run successfully; the generator is invoked for a
\* container of the namespace listed last, and a command is run for the
\* container the generator was invoked for last.
StepsInOrder ==
    /\ listCalls' # listCalls
           => /\ AllGeneratedRan
              /\ Len(listCalls') = Len(listCalls) + 1
              /\ ran' = ran
    /\ genCalls' # genCalls
           => /\ AllGeneratedRan
              /\ Len(genCalls') = Len(genCalls) + 1
              /\ Last(genCalls').ns = Len(listCalls)
              /\ listCalls' = listCalls
    /\ ran' # ran
           => /\ Len(ran') = Len(ran) + 1
              /\ Last(ran').cmd.ns = Len(listCalls)
              /\ Last(ran').cmd.ns = Last(genCalls).ns
              /\ Last(ran').cmd.pod = Last(genCalls).pod
              /\ Last(ran').cmd.container = Last(genCalls).container
              /\ listCalls' = listCalls
              /\ genCalls' = genCalls

\* C15: Perform lists the namespaces in the order given, visits pods and
\* containers in listing order and runs the commands of a container in the
\* order the generator gave them; a command runs only after every command
\* before it in that order ran successfully, and a namespace is listed only
\* after every command of the namespaces before it has run.
C15_StrictlySequential == []LogsInOrder /\ [][StepsInOrder]_vars

\* Perform returned success after running two commands in each of the two
\* containers of a pod of the first namespace and one in the second.
C15_Witness ==
    /\ pc = "done"
    /\ perr = NoError
    /\ Len(listCalls) = 2
    /\ listCalls[1].pods = <<PodTwin>>
    /\ \E g, h \in 1..Len(genCalls) :
           /\ genCalls[g].ns = 1 /\ genCalls[g].container = 1 /\ genCalls[g].n = 2
           /\ genCalls[h].ns = 1 /\ genCalls[h].container = 2 /\ genCalls[h].n = 2
    /\ Last(ran).cmd.ns = 2
    /\ Len(Applied) = 5

\* x, a generator call or a command, is for a container that was listed.
IsListed(x) ==
    /\ x.ns \in 1..Len(listCalls)
    /\ x.pod \in 1..Len(listCalls[x.ns].pods)
    /\ x.container \in 1..Len(listCalls[x.ns].pods[x.pod].Containers)

\* The image of the listed container x is for.
ImageOf(x) == listCalls[x.ns].pods[x.pod].Containers[x.container].Image

\* The invocations of the generator for the c-th container of the p-th pod of
\* the i-th listing.
GenCallsFor(i, p, c) ==
    {g \in 1..Len(genCalls) :
        genCalls[g].ns = i /\ genCalls[g].pod = p /\ genCalls[g].container = c}

\* Perform got to the c-th container of the p-th pod of the i-th listing: it
\* returned and no command failed, or the failed command is of that container
\* or of a later one.
Reached(i, p, c) ==
    /\ pc = "done"
    /\ \/ \A r \in 1..Len(ran) : ran[r].ok
       \/ ~ContainerBefore(Last(ran).cmd, [ns |-> i, pod |-> p, container |-> c])

\* C16: the generator is invoked, and commands are run, only for listed
\* containers whose image is equal to the target image, never twice for one
\* container, and once for every such container Perform got to, whether or
\* not another container of the pod or the namespace has the image too.
C16_ExactImageTargeting ==
    /\ \A g \in 1..Len(genCalls) : IsListed(genCalls[g]) /\ ImageOf(genCalls[g]) = image
    /\ \A r \in 1..Len(ran) : IsListed(ran[r].cmd) /\ ImageOf(ran[r].cmd) = image
    /\ \A i \in 1..Len(listCalls) :
           \A p \in 1..Len(listCalls[i].pods) :
               \A c \in 1..Len(listCalls[i].pods[p].Containers) :
                   /\ Cardinality(GenCallsFor(i, p, c)) <= 1
                   /\ (Reached(i, p, c) /\ listCalls[i].pods[p].Containers[c].Image = image)
                          => Cardinality(GenCallsFor(i, p, c)) = 1

\* Perform returned after a namespace with a pod of a container of another
\* image and one of the target image, then a pod of the target image, and a
\* namespace with a pod of two containers of the target image: the generator
\* was invoked for the four containers of the target image only.
C16_Witness ==
    /\ pc = "done"
    /\ Len(listCalls) = 2
    /\ listCalls[1].pods = <<PodMixed, PodTarget>>
    /\ listCalls[2].pods = <<PodTwin>>
    /\ \A r \in 1..Len(ran) : ran[r].ok
    /\ Len(genCalls) = 4
    /\ genCalls[1].container = 2

\* A failed listing is the last one made, Perform has returned its error, and
\* neither the generator nor a command was reached in its namespace or a
\* later one.
ListFailureIsFinal ==
    \A i \in 1..Len(listCalls) :
        ~listCalls[i].ok
            => /\ i = Len(listCalls)
               /\ pc = "done"
               /\ perr = Wrap("getting pods for namespace", ErrList)
               /\ perr # ErrNoSync
               /\ \A g \in 1..Len(genCalls) : genCalls[g].ns < listCalls[i].ns
               /\ \A r \in 1..Len(ran) : ran[r].cmd.ns < listCalls[i].ns

\* C17: when the listing of a namespace fails Perform returns at once with
\* the listing error wrapped, not the zero-effect error, whether or not
\* commands ran in earlier namespaces; after that no namespace is listed, no
\* command is run, and the commands that ran stay applied.
C17_ListFailureAborts ==
    /\ []ListFailureIsFinal
    /\ [][(\E i \in 1..Len(listCalls) : ~listCalls[i].ok)
              => (UNCHANGED performVars /\ Applied' = Applied)]_vars

\* The listing of the second namespace failed after two commands ran in the
\* first: Perform returned the listing error and the two stay applied.
C17_Witness ==
    /\ pc = "done"
    /\ Len(namespaces) = 2
    /\ Len(listCalls) = 2
    /\ listCalls[1].ok
    /\ ~listCalls[2].ok
    /\ Len(Applied) = 2
    /\ numSynced = 2
    /\ perr = Wrap("getting pods for namespace", ErrList)

----------------------------------------------------------------------------
(* Properties of autoSelectBuilders.                                       *)

PairedIds == {pairs[i].Builder.id : i \in 1..Len(pairs)}

RemainingIds == {builderConfigs[i].id : i \in 1..Len(builderConfigs)}

\* s keeps the order its elements had in the input, told by their id.
InInputOrder(s) == \A i, j \in 1..Len(s) : i < j => s[i].id < s[j].id

\* C21: of the images visited so far each is, in input order, either in a
\* pair or among the unresolved images, once; it is in a pair exactly when
\* one builder among those left when it was visited had it configured, and
\* the pair is with that builder; no builder is in two pairs or both in a
\* pair and among the builders left, and the builders in pairs and those
\* left, the latter in input order, are the builders of the input.
C21_SelectPartitionsImagesAndBuilders ==
    /\ pc = "done" => Len(selectLog) = Len(images)
    /\ \A k \in 1..Len(selectLog) :
           /\ selectLog[k].image = images[k]
           /\ selectLog[k].paired <=> selectLog[k].matches = 1
    /\ [i \in 1..Len(pairs) |-> pairs[i].ImageName]
           = [i \in 1..Len(SelectSeq(selectLog, LAMBDA l : l.paired)) |->
                 SelectSeq(selectLog, LAMBDA l : l.paired)[i].image]
    /\ unresolvedImages
           = [i \in 1..Len(SelectSeq(selectLog, LAMBDA l : ~l.paired)) |->
                 SelectSeq(selectLog, LAMBDA l : ~l.paired)[i].image]
    /\ Len(pairs) + Len(unresolvedImages) = Len(selectLog)
    /\ \A i \in 1..Len(pairs) :
           /\ pairs[i].Builder \in Range(inputBuilders)
           /\ pairs[i].Builder.ConfiguredImage = pairs[i].ImageName
    /\ \A i, j \in 1..Len(pairs) : pairs[i].Builder.id = pairs[j].Builder.id => i = j
    /\ PairedIds \cap RemainingIds = {}
    /\ PairedIds \cup RemainingIds = 1..Len(inputBuilders)
    /\ Range(builderConfigs) \subseteq Range(inputBuilders)
    /\ InInputOrder(builderConfigs)
    /\ Len(pairs) + Len(builderConfigs) = Len(inputBuilders)

\* autoSelectBuilders returned on three builders, two of them of one image,
\* and on images of which the first has those two builders, the second has
\* the third builder and the last is the second again.
C21_Witness ==
    /\ pc = "done"
    /\ Len(inputBuilders) = 3
    /\ Len(images) = 3
    /\ selectLog[1].matches = 2
    /\ selectLog[2].matches = 1
    /\ images[3] = images[2]
    /\ selectLog[3].matches = 0
    /\ Len(pairs) = 1
    /\ unresolvedImages = <<images[1], images[3]>>
    /\ Len(builderConfigs) = 2

----------------------------------------------------------------------------
(* Properties of DoInit.                                                   *)

YesReads ==
    {Line(<<"y", "\n">>), Line(<<" ", "Y", "E", "S", " ", "\n">>),
     Line(<<"Y", "e", "s", "\r", "\n">>)}

NoReads == {Line(<<"n", "\n">>), Line(<<"\t", "N", "o", "\n">>)}

FailedReads == {r \in ReadUniverse : r.err # NilErr}

OtherReads == ReadUniverse \ (YesReads \cup NoReads \cup FailedReads)

\* The target is a file and Force is not set.
Gated == configFile # "-" /\ ~force

\* DoInit got to the generated pipeline.
Generated == pc # "doinit" /\ initErr # ErrPrepare /\ "analysis" \notin Range(out)

Questions == SelectSeq(out, LAMBDA o : o = "question")

\* With a file as target and without Force: a question was put before each
\* read, every read before the last asked again, and the last read decides:
\* yes goes on to the writing, no ends DoInit without error and without
\* writing, a failed read ends it with the error and without writing, and
\* anything else asks again without writing.
GatedByAnswer ==
    Gated
        => /\ Len(Questions) = Len(reads)
           /\ \A k \in 1..(Len(reads) - 1) : reads[k] \in OtherReads
           /\ reads = <<>> => fileWrites = <<>>
           /\ reads # <<>> =>
                  /\ Last(reads) \in YesReads
                         => /\ pc \in {"write", "done"}
                            /\ pc = "done" => Len(fileWrites) = 1
                  /\ Last(reads) \in NoReads
                         => (pc = "done" /\ initErr = NilErr /\ fileWrites = <<>>)
                  /\ Last(reads) \in FailedReads
                         => /\ pc = "done"
                            /\ initErr = <<"reading user confirmation">> \o Last(reads).err
                            /\ fileWrites = <<>>
                  /\ Last(reads) \in OtherReads
                         => (pc = "confirm" /\ initErr = NilErr /\ fileWrites = <<>>)

\* With Force and a file as target nothing is asked or read and the file is
\* written; with "-" as target nothing is asked, read or written to a file
\* and the pipeline goes to the output stream.
UngatedTargets ==
    /\ (force /\ configFile # "-")
           => /\ reads = <<>>
              /\ Questions = <<>>
              /\ (pc = "done" /\ Generated) => Len(fileWrites) = 1
    /\ configFile = "-"
           => /\ reads = <<>>
              /\ Questions = <<>>
              /\ fileWrites = <<>>
              /\ (pc = "done" /\ Generated) => (out = <<"pipeline">> /\ initErr = NilErr)

\* The file is written at most once, under the name of the target, and the
\* user is told only when the writing succeeded.
WrittenOnce ==
    /\ Len(fileWrites) <= 1
    /\ \A i \in 1..Len(fileWrites) : fileWrites[i].name = configFile
    /\ "written" \in Range(out) <=> (fileWrites # <<>> /\ fileWrites[1].ok)

\* C22: with a file as target and without Force the configuration file is
\* written only after an answer that is "y" or "yes" once trimmed and put in
\* lower case; "n" or "no" ends DoInit successfully without writing, any
\* other answer asks again without writing, and a failed read ends DoInit
\* with an error without writing.  With Force the file is written without
\* asking, and with "-" as target the pipeline goes to the output stream and
\* no file is written.
C22_ConfigWriteGated ==
    /\ [](GatedByAnswer /\ UngatedTargets /\ WrittenOnce)
    /\ [][fileWrites' # fileWrites
             => /\ configFile # "-"
                /\ force \/ (reads # <<>> /\ Last(reads) \in YesReads)
                /\ reads' = reads]_vars

\* DoInit wrote the file after an answer that asked again and the answer
\* " YES ".
C22_Witness ==
    /\ pc = "done"
    /\ Gated
    /\ Len(reads) = 2
    /\ reads[1] = Line(<<"y", " ", "e", "s", "\n">>)
    /\ reads[2] = Line(<<" ", "Y", "E", "S", " ", "\n">>)
    /\ fileWrites = <<[name |-> configFile, ok |-> TRUE]>>
    /\ out = <<"pipeline", "question", "question", "written", "tips">>
    /\ initErr = NilErr

====
